---------------------------- MODULE Spec2Model ----------------------------
(***************************************************************************)
(* Offline venue recommender: main.py (startup + recommend handler),       *)
(* agents.py (criterion agents, feedback agent, _llm_explain) and rag.py   *)
(* (build_index, RAG.retrieve, RAG.summarize_retrieval).                   *)
(*                                                                         *)
(* Numbers.  Python floats are modelled as exact rationals kept in scaled  *)
(* integers: a similarity in tenths (80.0 is 800), a Chroma distance in    *)
(* ten-thousandths (0.2 is 2000), a VADER compound in hundredths, an       *)
(* agent_score in hundredths, a ranking_score in tenths.  int() is         *)
(* truncation toward zero, round() is round-half-even.  A Python dict is a *)
(* function on strings; d.get(k, default) is Get(d, k, default); None is   *)
(* the string Null.  The values of the data below are such that the float  *)
(* computation and the exact one agree: no quotient int() truncates and no *)
(* score round() rounds lies within a float error of an integer or a tie.  *)
(*                                                                         *)
(* Spec is the service: startup, then concurrent recommend calls, each a   *)
(* sequence of steps.  SpecExplain is one call with every pattern of       *)
(* collaborator failures.  SpecRank is one call on histories chosen for    *)
(* the ranking arithmetic.  SpecAgents and SpecRetrieve apply one          *)
(* criterion agent, or RAG.retrieve, to inputs drawn from bounded sets.    *)
(***************************************************************************)
EXTENDS Integers, Sequences, FiniteSets, TLC

VARIABLES
    files,             \* the three corpus files on disk, as startup finds them
    boot,              \* position of module startup in main.py
    venues,            \* main.venues
    current_requests,  \* main.current_requests
    index,             \* rag.collection: the indexed documents, in insertion order
    rag_top_n,         \* rag.top_n of the module-level RAG object
    calls,             \* one recommend() activation per client thread
    probe              \* a single call of one pure function, with its inputs and result

vars == <<files, boot, venues, current_requests, index, rag_top_n, calls, probe>>

Null == "<None>"

Get(d, k, default) == IF k \in DOMAIN d THEN d[k] ELSE default

Max(a, b) == IF a >= b THEN a ELSE b
Min(a, b) == IF a <= b THEN a ELSE b

\* int(num/den) for den > 0: truncation toward zero
IntTrunc(num, den) ==
    IF num >= 0 THEN num \div den ELSE -((-num) \div den)

\* round(num/den) for den > 0: round half to even
RoundHalfEven(num, den) ==
    LET q == num \div den
        r == num % den
    IN  IF 2 * r < den THEN q
        ELSE IF 2 * r > den THEN q + 1
        ELSE IF q % 2 = 0 THEN q ELSE q + 1

RECURSIVE SeqSum(_)
SeqSum(s) == IF s = <<>> THEN 0 ELSE Head(s) + SeqSum(Tail(s))

\* set(list)
ToSet(s) == {s[i] : i \in DOMAIN s}

-----------------------------------------------------------------------------
(* agents.py *)

LlmOutcome == {"text", "error"}

\* _llm_explain: the collaborator's reply, or the placeholder when it raises
_llm_explain(outcome) ==
    IF outcome = "error" THEN "[Local LLM error]" ELSE "llm text"

\* mutant: a failed explanation zeroes the agent's score
MutAgentResultZeroOnError(score, reason, outcome) ==
    [score |-> IF outcome = "error" THEN 0 ELSE score,
     reason |-> reason,
     llm_explanation |-> IF outcome = "error" THEN "[Local LLM error]" ELSE "llm text"]

AgentResult(score, reason, outcome) ==
    [score |-> score, reason |-> reason, llm_explanation |-> _llm_explain(outcome)]

\* mutant: the max(0, ...) clamp is missing
MutCapacityScoreNoClamp(event, venue) ==
    LET max_cap == Get(venue, "max_capacity", 0)
        attendees == Get(event, "attendee_count", 0)
    IN  IF max_cap = 0 THEN 0
        ELSE IntTrunc(100 * max_cap - 100 * attendees, max_cap)

CapacityScore(event, venue) ==
    LET max_cap == Get(venue, "max_capacity", 0)
        attendees == Get(event, "attendee_count", 0)
    IN  IF max_cap = 0 THEN 0
        ELSE Max(0, IntTrunc(100 * max_cap - 100 * attendees, max_cap))

CapacityAgent(event, venue, outcome) ==
    AgentResult(CapacityScore(event, venue),
                <<Get(event, "attendee_count", 0), Get(venue, "max_capacity", 0)>>,
                outcome)

AmenityScore(event, venue) ==
    LET req == ToSet(Get(event, "required_amenities", <<>>))
        pref == ToSet(Get(event, "preferred_amenities", <<>>))
        avail == ToSet(Get(venue, "amenities", <<>>))
        nreq == Max(Cardinality(req), 1)
        npref == Max(Cardinality(pref), 1)
    IN  IntTrunc(70 * Cardinality(req \cap avail) * npref
                 + 30 * Cardinality(pref \cap avail) * nreq,
                 nreq * npref)

AmenityAgent(event, venue, outcome) ==
    LET req == ToSet(Get(event, "required_amenities", <<>>))
        pref == ToSet(Get(event, "preferred_amenities", <<>>))
        avail == ToSet(Get(venue, "amenities", <<>>))
    IN  AgentResult(AmenityScore(event, venue),
                    <<Cardinality(req \cap avail), Cardinality(req),
                      Cardinality(pref \cap avail), Cardinality(pref)>>,
                    outcome)

LocationScore(event, venue) ==
    LET pref == Get(event, "location_preference", Null)
        actual == Get(venue, "region", Null)
    IN  IF actual = pref THEN 100 ELSE 50

LocationAgent(event, venue, outcome) ==
    AgentResult(LocationScore(event, venue),
                <<Get(event, "location_preference", Null), Get(venue, "region", Null)>>,
                outcome)

CostEstimate(event, venue) ==
    Get(venue, "daily_rate", 0) * Get(event, "duration_days", 1)

CostScore(event, venue) ==
    LET budget == Get(event, "budget", 0)
        est == CostEstimate(event, venue)
    IN  IF budget = 0 THEN 0
        ELSE Min(100, IntTrunc(100 * budget, Max(est, 1)))

CostAgent(event, venue, outcome) ==
    AgentResult(CostScore(event, venue),
                IF Get(event, "budget", 0) = 0 THEN <<>>
                ELSE <<CostEstimate(event, venue), Get(event, "budget", 0)>>,
                outcome)

SpecialScore(event, venue) ==
    LET reqs == ToSet(Get(event, "special_requirements", <<>>))
        avail == ToSet(Get(venue, "amenities", <<>>)) \cup ToSet(Get(venue, "features", <<>>))
    IN  IntTrunc(100 * Cardinality(reqs \cap avail), Max(Cardinality(reqs), 1))

SpecialRequirementAgent(event, venue, outcome) ==
    LET reqs == ToSet(Get(event, "special_requirements", <<>>))
        avail == ToSet(Get(venue, "amenities", <<>>)) \cup ToSet(Get(venue, "features", <<>>))
    IN  AgentResult(SpecialScore(event, venue),
                    <<Cardinality(reqs \cap avail), Cardinality(reqs)>>,
                    outcome)

\* FeedbackAgent.analyze.  A comment is modelled by its VADER compound score in
\* hundredths (polarity_scores(c)["compound"] in [-1, 1]); the adjustment is
\* in hundredths too.
FeedbackRaw(hist) ==
    5 * SeqSum(Get(hist, "positive_feedback", <<>>))
    + 5 * SeqSum(Get(hist, "negative_feedback", <<>>))

FeedbackAgent(hist) == Max(-2000, Min(2000, FeedbackRaw(hist)))

AgentNames == {"capacity", "amenity", "location", "cost", "special"}

Analyze(agent, event, venue, outcome) ==
    CASE agent = "capacity" -> CapacityAgent(event, venue, outcome)
      [] agent = "amenity"  -> AmenityAgent(event, venue, outcome)
      [] agent = "location" -> LocationAgent(event, venue, outcome)
      [] agent = "cost"     -> CostAgent(event, venue, outcome)
      [] agent = "special"  -> SpecialRequirementAgent(event, venue, outcome)

-----------------------------------------------------------------------------
(* rag.py *)

\* json.dumps(ev) / json.loads(doc): a document is the tagged text of the event
JsonDumps(ev) == <<"json", ev>>
JsonLoads(doc) == doc[2]

\* the query document RAG.retrieve builds from the request
QueryDoc(request) ==
    JsonDumps([event_type |-> Get(request, "event_type", Null),
               attendee_count |-> Get(request, "attendee_count", Null),
               duration_days |-> Get(request, "duration_days", Null),
               budget |-> Get(request, "budget", Null),
               required_amenities |-> Get(request, "required_amenities", <<>>),
               special_requirements |-> Get(request, "special_requirements", <<>>),
               event_style |-> Get(request, "event_style", Null)])

\* The distance Chroma reports between EMBEDDING_MODEL.encode(query_doc) and
\* the stored embedding of a document, in ten-thousandths.  The embedding
\* model is a fixed deterministic function of the two texts; it is given here
\* by a table on the query's event_type and the document's event_id.
DistanceTable ==
    [conference |-> [H1 |-> 2000, H2 |-> 4000, H3 |-> 3000, H4 |-> 12000, H5 |-> 2547,
                     H6 |-> 2010, H7 |-> 5000],
     wedding    |-> [H1 |-> 6100, H2 |-> 1234, H3 |-> 0,    H4 |-> 9990,  H5 |-> 4000,
                     H6 |-> 7000, H7 |-> 8100]]

Distance(query_doc, doc) ==
    DistanceTable[JsonLoads(query_doc).event_type][JsonLoads(doc).event_id]

\* insertion of x into a list kept in ascending order of distance, after its equals
RECURSIVE InsertAsc(_, _, _)
InsertAsc(x, s, q) ==
    IF s = <<>> THEN <<x>>
    ELSE IF Distance(q, x) < Distance(q, Head(s)) THEN <<x>> \o s
    ELSE <<Head(s)>> \o InsertAsc(x, Tail(s), q)

RECURSIVE NearestFirst(_, _)
NearestFirst(docs, q) ==
    IF docs = <<>> THEN <<>>
    ELSE InsertAsc(docs[Len(docs)], NearestFirst(SubSeq(docs, 1, Len(docs) - 1), q), q)

\* collection.query(n_results=n): the n nearest documents, nearest first
CollectionQuery(coll, q, n) ==
    LET sorted == NearestFirst(coll, q)
    IN  SubSeq(sorted, 1, Min(n, Len(sorted)))

\* max(0, round(100 * (1 - dist), 1)), in tenths
SimilarityOf(dist) == Max(0, RoundHalfEven(10000 - dist, 10))

\* RAG.retrieve on a retriever with self.top_n = top_n
Retrieve(coll, top_n, request) ==
    LET q == QueryDoc(request)
        results == CollectionQuery(coll, q, top_n * 2)
    IN  [i \in 1..Len(results) |->
            [historical_event |-> JsonLoads(results[i]),
             similarity_score |-> SimilarityOf(Distance(q, results[i]))]]

\* the keys summarize_retrieval reads with event[key] while it builds its
\* prompt, before the try block: a missing one raises KeyError
SummaryKeys == {"event_name", "event_type", "attendee_count", "overall_satisfaction"}
SummaryRaises(similar_events) ==
    \E i \in 1..Min(3, Len(similar_events)) :
        ~(SummaryKeys \subseteq DOMAIN similar_events[i].historical_event)

\* RAG.summarize_retrieval where it returns: the collaborator's reply or the placeholder
SummarizeRetrieval(similar_events, outcome) ==
    IF similar_events = <<>> THEN "No similar past events found."
    ELSE IF outcome = "error" THEN "[LLM Error]" ELSE "llm text"

\* build_index's loop and collection.add: the documents appended to the collection
IndexedDocs(coll, events) ==
    coll \o [i \in 1..Len(events) |-> JsonDumps(events[i])]

-----------------------------------------------------------------------------
(* main.py *)

RAG_TOP_N == 6
DEFAULT_TOP_N == 3

\* weights in hundredths
AGENT_WEIGHTS ==
    [capacity |-> 25, amenity |-> 20, location |-> 15, cost |-> 25, special |-> 15]
HYBRID_WEIGHTS == [agent |-> 45, rag |-> 45, feedback |-> 10]

\* the explanation collaborator's calls while one candidate is scored
LlmCalls == AgentNames \cup {"summary"}

\* next((x for x in xs if x[key] == value), None): position of the first match, 0 for None
RECURSIVE FirstMatch(_, _, _, _)
FirstMatch(xs, key, value, from) ==
    IF from > Len(xs) THEN 0
    ELSE IF xs[from][key] = value THEN from
    ELSE FirstMatch(xs, key, value, from + 1)

\* mutant: a historical event whose venue is unknown falls back to the first venue
MutVenueOfFallsBack(vs, hist_event) ==
    LET at == FirstMatch(vs, "venue_id", Get(hist_event, "venue_id", Null), 1)
    IN  IF at = 0 /\ vs # <<>> THEN 1 ELSE at

\* the venue of a historical event in the list vs, as a position (0: not found)
VenueOf(vs, hist_event) ==
    FirstMatch(vs, "venue_id", Get(hist_event, "venue_id", Null), 1)

\* agent composite score, in hundredths
AgentScore(cap, ame, loc, cst, spc) ==
    cap.score * AGENT_WEIGHTS.capacity
    + ame.score * AGENT_WEIGHTS.amenity
    + loc.score * AGENT_WEIGHTS.location
    + cst.score * AGENT_WEIGHTS.cost
    + spc.score * AGENT_WEIGHTS.special

\* mutant: the feedback adjustment is added unweighted
MutHybridScoreFeedbackUnweighted(agent_score, rag_score, fb_adj) ==
    HYBRID_WEIGHTS.agent * agent_score
    + HYBRID_WEIGHTS.rag * 10 * rag_score
    + 100 * fb_adj

\* hybrid score in ten-thousandths, from agent_score (hundredths), the
\* similarity (tenths) and the feedback adjustment (hundredths)
HybridScore(agent_score, rag_score, fb_adj) ==
    HYBRID_WEIGHTS.agent * agent_score
    + HYBRID_WEIGHTS.rag * 10 * rag_score
    + HYBRID_WEIGHTS.feedback * fb_adj

\* the body of recommend's loop for a candidate whose venue resolved
ScoreItem(request, venue, item, llm) ==
    LET hist_event == item.historical_event
        cap == CapacityAgent(request, venue, llm["capacity"])
        ame == AmenityAgent(request, venue, llm["amenity"])
        loc == LocationAgent(request, venue, llm["location"])
        cst == CostAgent(request, venue, llm["cost"])
        spc == SpecialRequirementAgent(request, venue, llm["special"])
        fb_adj == FeedbackAgent(hist_event)
        rag_score == item.similarity_score
        hybrid_score == HybridScore(AgentScore(cap, ame, loc, cst, spc), rag_score, fb_adj)
    IN  [venue_id |-> venue["venue_id"],
         venue_name |-> venue["name"],
         ranking_score |-> RoundHalfEven(hybrid_score, 1000),
         analysis |->
            [capacity_agent |-> cap,
             amenity_agent |-> ame,
             location_agent |-> loc,
             cost_agent |-> cst,
             special_requirement_agent |-> spc,
             feedback_adjustment |-> fb_adj,
             rag_similarity_score |-> rag_score,
             rag_summary |-> SummarizeRetrieval(<<item>>, llm["summary"]),
             historical_event |-> hist_event]]

\* mutant: an element is placed after its equals, so equal keys come out reversed
RECURSIVE MutInsertDescAfterEquals(_, _)
MutInsertDescAfterEquals(x, s) ==
    IF s = <<>> THEN <<x>>
    ELSE IF x.ranking_score > Head(s).ranking_score THEN <<x>> \o s
    ELSE <<Head(s)>> \o MutInsertDescAfterEquals(x, Tail(s))

\* list.sort(key=ranking_score, reverse=True): descending, equal keys keep their order
RECURSIVE InsertDesc(_, _)
InsertDesc(x, s) ==
    IF s = <<>> THEN <<x>>
    ELSE IF x.ranking_score >= Head(s).ranking_score THEN <<x>> \o s
    ELSE <<Head(s)>> \o InsertDesc(x, Tail(s))

RECURSIVE SortDesc(_)
SortDesc(s) == IF s = <<>> THEN <<>> ELSE InsertDesc(Head(s), SortDesc(Tail(s)))

\* s[:n]
Slice(s, n) ==
    IF n >= 0 THEN SubSeq(s, 1, Min(n, Len(s)))
    ELSE SubSeq(s, 1, Max(0, Len(s) + n))

TopN(payload) == Get(payload, "top_n", DEFAULT_TOP_N)

HTTPException(status_code, detail) == [status |-> status_code, detail |-> detail]
\* what the framework answers when the handler raises anything else
InternalServerError == HTTPException(500, "Internal Server Error")
Ok(recommendations) == [status |-> 200, recommendations |-> recommendations]

\* recommend's last three statements
FinishResponse(recommendations, payload) ==
    IF recommendations = <<>> THEN HTTPException(404, "No suitable venues found")
    ELSE Ok(Slice(SortDesc(recommendations), TopN(payload)))

NoCall ==
    [pc |-> "idle", payload |-> <<>>, request |-> <<>>, similar |-> <<>>, i |-> 0,
     recommendations |-> <<>>, llm |-> <<>>, response |-> [status |-> 0]]

\* recommend, lines 68-70: look the request up
Begin(c, payload) ==
    /\ boot = "serving"
    /\ calls[c].pc = "idle"
    /\ LET at == FirstMatch(current_requests, "event_id", payload.event_id, 1)
       IN  calls' = [calls EXCEPT ![c] =
              IF at = 0
              THEN [@ EXCEPT !.pc = "done", !.payload = payload,
                             !.response = HTTPException(404, "Event request not found")]
              ELSE [@ EXCEPT !.pc = "retrieve", !.payload = payload,
                             !.request = current_requests[at]]]
    /\ UNCHANGED <<files, boot, venues, current_requests, index, rag_top_n, probe>>

\* recommend, lines 73-78: retrieval
RetrieveStep(c) ==
    /\ boot = "serving"
    /\ calls[c].pc = "retrieve"
    /\ LET similar_events == Retrieve(index, rag_top_n, calls[c].request)
       IN  calls' = [calls EXCEPT ![c] =
              IF similar_events = <<>>
              THEN [@ EXCEPT !.pc = "done",
                             !.response = HTTPException(404, "No similar past events found")]
              ELSE [@ EXCEPT !.pc = "score", !.similar = similar_events, !.i = 1]]
    /\ UNCHANGED <<files, boot, venues, current_requests, index, rag_top_n, probe>>

AfterItem(call) ==
    [call EXCEPT !.i = @ + 1, !.pc = IF call.i = Len(call.similar) THEN "finish" ELSE "score"]

\* recommend, lines 79-83: a candidate whose venue is not in venues is skipped
ScoreDrop(c) ==
    /\ boot = "serving"
    /\ calls[c].pc = "score"
    /\ VenueOf(venues, calls[c].similar[calls[c].i].historical_event) = 0
    /\ calls' = [calls EXCEPT ![c] = AfterItem(@)]
    /\ UNCHANGED <<files, boot, venues, current_requests, index, rag_top_n, probe>>

\* recommend, lines 79-125: a candidate whose venue resolved is scored and appended
ScoreCalls(c, llm) ==
    /\ boot = "serving"
    /\ calls[c].pc = "score"
    /\ LET item == calls[c].similar[calls[c].i]
           at == VenueOf(venues, item.historical_event)
       IN  /\ at # 0
           /\ ~SummaryRaises(<<item>>)
           /\ calls' = [calls EXCEPT ![c] =
                 AfterItem([@ EXCEPT
                    !.recommendations =
                        Append(@, ScoreItem(calls[c].request, venues[at], item, llm)),
                    !.llm = Append(@, llm)])]

\* mutant: the handler consumes the venue it has scored from the shared list
MutScoreVenuePopsVenue(c, llm) ==
    /\ ScoreCalls(c, llm)
    /\ venues' = Tail(venues)
    /\ UNCHANGED <<files, boot, current_requests, index, rag_top_n, probe>>

ScoreVenue(c, llm) ==
    /\ ScoreCalls(c, llm)
    /\ UNCHANGED <<files, boot, venues, current_requests, index, rag_top_n, probe>>

\* recommend, lines 79-122: the venue resolved, the agents ran, and
\* rag.summarize_retrieval([item]) raises KeyError out of the handler
ScoreRaise(c) ==
    /\ boot = "serving"
    /\ calls[c].pc = "score"
    /\ LET item == calls[c].similar[calls[c].i]
       IN  /\ VenueOf(venues, item.historical_event) # 0
           /\ SummaryRaises(<<item>>)
    /\ calls' = [calls EXCEPT ![c] = [@ EXCEPT !.pc = "done", !.response = InternalServerError]]
    /\ UNCHANGED <<files, boot, venues, current_requests, index, rag_top_n, probe>>

\* recommend, lines 127-132
Finish(c) ==
    /\ boot = "serving"
    /\ calls[c].pc = "finish"
    /\ calls' = [calls EXCEPT ![c] =
          [@ EXCEPT !.pc = "done",
                    !.response = FinishResponse(calls[c].recommendations, calls[c].payload)]]
    /\ UNCHANGED <<files, boot, venues, current_requests, index, rag_top_n, probe>>

\* recommend run on its own from start to end, the collaborator answering as in llmlog
\* the loop: the recommendations appended so far, and whether an item has raised
RECURSIVE ScoreAll(_, _, _, _, _)
ScoreAll(request, vs, items, llmlog, recs) ==
    IF items = <<>> THEN [raised |-> FALSE, recommendations |-> recs]
    ELSE LET at == VenueOf(vs, Head(items).historical_event)
         IN  IF at = 0 THEN ScoreAll(request, vs, Tail(items), llmlog, recs)
             ELSE IF SummaryRaises(<<Head(items)>>)
             THEN [raised |-> TRUE, recommendations |-> recs]
             ELSE ScoreAll(request, vs, Tail(items), Tail(llmlog),
                           Append(recs, ScoreItem(request, vs[at], Head(items), Head(llmlog))))

RecommendAlone(reqs, vs, coll, top_n, payload, llmlog) ==
    LET at == FirstMatch(reqs, "event_id", payload.event_id, 1)
    IN  IF at = 0 THEN HTTPException(404, "Event request not found")
        ELSE LET similar_events == Retrieve(coll, top_n, reqs[at])
             IN  IF similar_events = <<>>
                 THEN HTTPException(404, "No similar past events found")
                 ELSE LET loop == ScoreAll(reqs[at], vs, similar_events, llmlog, <<>>)
                      IN  IF loop.raised THEN InternalServerError
                          ELSE FinishResponse(loop.recommendations, payload)

-----------------------------------------------------------------------------
(* the data files: data/venues.json, data/current_requests.json,           *)
(* data/event_history.json                                                 *)

V1 == [venue_id |-> "V1", name |-> "Grand Hall", max_capacity |-> 200, daily_rate |-> 1000,
       amenities |-> <<"wifi", "stage">>, features |-> <<"garden">>, region |-> "north"]
V2 == [venue_id |-> "V2", name |-> "Loft", daily_rate |-> 3000, amenities |-> <<"wifi">>]

R1 == [event_id |-> "R1", event_type |-> "conference", event_style |-> "formal",
       attendee_count |-> 100, duration_days |-> 2, budget |-> 5000,
       required_amenities |-> <<"wifi", "projector">>, preferred_amenities |-> <<"stage">>,
       special_requirements |-> <<"garden">>, location_preference |-> "north"]
R2 == [event_id |-> "R2", event_type |-> "wedding", attendee_count |-> 150]

H1 == [event_id |-> "H1", venue_id |-> "V1", event_name |-> "Summit", event_type |-> "conference",
       attendee_count |-> 120, overall_satisfaction |-> 25, would_rebook |-> FALSE,
       positive_feedback |-> <<>>, negative_feedback |-> <<-50>>]
H2 == [event_id |-> "H2", venue_id |-> "V2", event_name |-> "Gala", event_type |-> "wedding",
       attendee_count |-> 80, overall_satisfaction |-> 50, would_rebook |-> TRUE,
       positive_feedback |-> <<90, 80>>, negative_feedback |-> <<>>]
H3 == [event_id |-> "H3", venue_id |-> "VX", event_name |-> "Expo", event_type |-> "conference",
       attendee_count |-> 300, overall_satisfaction |-> 40, would_rebook |-> TRUE]
H4 == [event_id |-> "H4", venue_id |-> "V1", event_name |-> "Retreat", event_type |-> "retreat",
       attendee_count |-> 20, overall_satisfaction |-> 45, would_rebook |-> TRUE,
       positive_feedback |-> <<95, 95, 95, 95, 95>>, negative_feedback |-> <<>>]
H5 == [event_id |-> "H5", venue_id |-> "V2", event_name |-> "Launch", event_type |-> "conference",
       attendee_count |-> 60, would_rebook |-> FALSE]

H6 == [event_id |-> "H6", venue_id |-> "V1", event_name |-> "Forum", event_type |-> "conference",
       attendee_count |-> 110, overall_satisfaction |-> 45, would_rebook |-> TRUE,
       positive_feedback |-> <<>>, negative_feedback |-> <<-40>>]
H7 == [event_id |-> "H7", venue_id |-> "V2", event_name |-> "Meetup", event_type |-> "conference",
       attendee_count |-> 40, overall_satisfaction |-> 35, would_rebook |-> TRUE]

Missing == [status |-> "missing"]
Malformed == [status |-> "malformed"]
File(content) == [status |-> "ok", content |-> content]

VenueFiles == {Missing, Malformed, File(<<V1, V2>>), File(<<V2>>)}
RequestFiles == {Missing, Malformed, File(<<R1, R2>>)}
HistoryFiles ==
    {Missing, Malformed, File(<<H1, H2, H3>>), File(<<H3>>), File(<<H1, H1>>), File(<<H5, H1>>)}

\* with open(VENUES_FILE) ... json.load(f): raises when the file is missing or malformed
LoadVenues ==
    /\ boot = "load_venues"
    /\ IF files.venues.status = "ok"
       THEN venues' = files.venues.content /\ boot' = "load_requests"
       ELSE boot' = "aborted" /\ UNCHANGED venues
    /\ UNCHANGED <<files, current_requests, index, rag_top_n, calls, probe>>

LoadRequests ==
    /\ boot = "load_requests"
    /\ IF files.requests.status = "ok"
       THEN current_requests' = files.requests.content /\ boot' = "build_index"
       ELSE boot' = "aborted" /\ UNCHANGED current_requests
    /\ UNCHANGED <<files, venues, index, rag_top_n, calls, probe>>

\* collection.add raises on ids repeated within the batch
HasDuplicateIds(events) ==
    \E i, j \in 1..Len(events) : i < j /\ events[i].event_id = events[j].event_id

\* what build_index(HISTORY_FILE) does to startup: "returned" or "raised"
BuildIndexOutcome(file) ==
    IF file.status = "missing" THEN "returned"
    ELSE IF file.status = "malformed" THEN "raised"
    ELSE IF HasDuplicateIds(file.content) THEN "raised"
    ELSE "returned"

\* rag = RAG(top_n=6); build_index(HISTORY_FILE); then the agents and the app are ready
BuildIndex ==
    /\ boot = "build_index"
    /\ rag_top_n' = RAG_TOP_N
    /\ boot' = IF BuildIndexOutcome(files.history) = "raised" THEN "aborted" ELSE "serving"
    /\ index' = IF files.history.status = "ok" /\ ~HasDuplicateIds(files.history.content)
                THEN IndexedDocs(index, files.history.content)
                ELSE index
    /\ UNCHANGED <<files, venues, current_requests, calls, probe>>

NoProbe == [kind |-> "none"]

InitProcess(clients) ==
    /\ files \in [venues : VenueFiles, requests : RequestFiles, history : HistoryFiles]
    /\ boot = "load_venues"
    /\ venues = <<>>
    /\ current_requests = <<>>
    /\ index = <<>>
    /\ rag_top_n = 0
    /\ calls = [c \in clients |-> NoCall]
    /\ probe = NoProbe

\* the requests clients send: a known or unknown event_id, top_n given or left to its default
MaxTopN == 2
EventIds == {"R1", "R2", "RX"}
Payloads ==
    [event_id : EventIds, top_n : (-1)..MaxTopN] \cup [event_id : EventIds]

\* what the explanation collaborator does during one candidate's scoring
LlmAll == [LlmCalls -> LlmOutcome]
LlmAllText == [k \in LlmCalls |-> "text"]
LlmFew == {LlmAllText, [k \in LlmCalls |-> "error"],
           [k \in LlmCalls |-> IF k = "summary" THEN "error" ELSE "text"]}

Clients == {"c1", "c2"}

Init == InitProcess(Clients)

Next ==
    \/ LoadVenues
    \/ LoadRequests
    \/ BuildIndex
    \/ \E c \in DOMAIN calls, payload \in Payloads : Begin(c, payload)
    \/ \E c \in DOMAIN calls : RetrieveStep(c)
    \/ \E c \in DOMAIN calls : ScoreDrop(c)
    \/ \E c \in DOMAIN calls, llm \in LlmFew : ScoreVenue(c, llm)
    \/ \E c \in DOMAIN calls : ScoreRaise(c)
    \/ \E c \in DOMAIN calls : Finish(c)

\* the service with concurrent recommend calls
Spec == Init /\ [][Next]_vars

InitExplain == InitProcess({"c1"})

NextExplain ==
    \/ LoadVenues
    \/ LoadRequests
    \/ BuildIndex
    \/ \E c \in DOMAIN calls, payload \in Payloads : Begin(c, payload)
    \/ \E c \in DOMAIN calls : RetrieveStep(c)
    \/ \E c \in DOMAIN calls : ScoreDrop(c)
    \/ \E c \in DOMAIN calls, llm \in LlmAll : ScoreVenue(c, llm)
    \/ \E c \in DOMAIN calls : ScoreRaise(c)
    \/ \E c \in DOMAIN calls : Finish(c)

\* one recommend call, the collaborator failing on any subset of its calls
SpecExplain == InitExplain /\ [][NextExplain]_vars

\* histories for the ranking: two candidates whose scores round to the same
\* ranking_score, a feedback total beyond the clamp, an event without feedback
RankHistoryFiles ==
    {File(<<H6, H1>>), File(<<H4, H7>>), File(<<H1, H2, H3>>), File(<<H5, H1>>)}

InitRank ==
    /\ files \in [venues : {File(<<V1, V2>>), File(<<V2>>)},
                  requests : {File(<<R1, R2>>)},
                  history : RankHistoryFiles]
    /\ boot = "load_venues"
    /\ venues = <<>>
    /\ current_requests = <<>>
    /\ index = <<>>
    /\ rag_top_n = 0
    /\ calls = [c \in {"c1"} |-> NoCall]
    /\ probe = NoProbe

\* one recommend call at a time on corpora that load
SpecRank == InitRank /\ [][Next]_vars

-----------------------------------------------------------------------------
(* the criterion agents on their own: one analyze(event, venue) call *)

MaxAttendees == 8
MaxCapacity == 6
MaxBudget == 7
MaxRate == 3
MaxDays == 2

\* a dict with the key k bound to each value of vals, or without the key
WithOptional(base, k, vals) == {base} \cup {base @@ (k :> v) : v \in vals}

TermLists == {<<>>, <<"wifi">>, <<"stage">>, <<"wifi", "stage">>, <<"wifi", "wifi">>}
Regions == {Null, "north", "south"}

ProbeEvent == [event_id |-> "P"]
ProbeVenue == [venue_id |-> "PV", name |-> "Probe Venue"]

ProbeEvents(agent) ==
    CASE agent = "capacity" -> WithOptional(ProbeEvent, "attendee_count", 0..MaxAttendees)
      [] agent = "amenity" ->
            UNION {WithOptional(e, "preferred_amenities", TermLists) :
                   e \in WithOptional(ProbeEvent, "required_amenities", TermLists)}
      [] agent = "location" -> WithOptional(ProbeEvent, "location_preference", Regions)
      [] agent = "cost" ->
            UNION {WithOptional(e, "duration_days", 1..MaxDays) :
                   e \in WithOptional(ProbeEvent, "budget", 0..MaxBudget)}
      [] agent = "special" -> WithOptional(ProbeEvent, "special_requirements", TermLists)

ProbeVenues(agent) ==
    CASE agent = "capacity" -> WithOptional(ProbeVenue, "max_capacity", 0..MaxCapacity)
      [] agent = "amenity" -> WithOptional(ProbeVenue, "amenities", TermLists)
      [] agent = "location" -> WithOptional(ProbeVenue, "region", Regions)
      [] agent = "cost" -> WithOptional(ProbeVenue, "daily_rate", 0..MaxRate)
      [] agent = "special" ->
            UNION {WithOptional(v, "features", TermLists) :
                   v \in WithOptional(ProbeVenue, "amenities", TermLists)}

InitAgents ==
    /\ files = [venues |-> Missing, requests |-> Missing, history |-> Missing]
    /\ boot = "probe"
    /\ venues = <<>>
    /\ current_requests = <<>>
    /\ index = <<>>
    /\ rag_top_n = 0
    /\ calls = <<>>
    /\ \E agent \in AgentNames :
         \E event \in ProbeEvents(agent), venue \in ProbeVenues(agent) :
            probe = [kind |-> "agent", agent |-> agent, event |-> event, venue |-> venue,
                     done |-> FALSE]

\* agent.analyze(event, venue), the collaborator answering or failing
AnalyzeProbe(outcome) ==
    /\ probe.kind = "agent"
    /\ ~probe.done
    /\ probe' = [kind |-> "agent", agent |-> probe.agent, event |-> probe.event,
                 venue |-> probe.venue, done |-> TRUE,
                 result |-> Analyze(probe.agent, probe.event, probe.venue, outcome)]
    /\ UNCHANGED <<files, boot, venues, current_requests, index, rag_top_n, calls>>

NextAgents == \E outcome \in LlmOutcome : AnalyzeProbe(outcome)

SpecAgents == InitAgents /\ [][NextAgents]_vars

-----------------------------------------------------------------------------
(* the retriever on its own: RAG(top_n=K).retrieve(request) on a built index *)

MaxK == 2
MaxCorpus == 3

HistoryPool == {H1, H2, H3, H4, H5}

\* the event lists of distinct events, up to MaxCorpus long
Corpora ==
    {s \in UNION {[1..n -> HistoryPool] : n \in 0..MaxCorpus} :
        \A i, j \in DOMAIN s : i # j => s[i] # s[j]}

InitRetrieve ==
    /\ files = [venues |-> Missing, requests |-> Missing, history |-> Missing]
    /\ boot = "probe"
    /\ venues = <<>>
    /\ current_requests = <<>>
    /\ \E events \in Corpora : index = IndexedDocs(<<>>, events)
    /\ rag_top_n \in 1..MaxK
    /\ calls = <<>>
    /\ \E request \in {R1, R2} :
         probe = [kind |-> "retrieve", request |-> request, done |-> FALSE]

RetrieveProbe ==
    /\ probe.kind = "retrieve"
    /\ ~probe.done
    /\ probe' = [kind |-> "retrieve", request |-> probe.request, done |-> TRUE,
                 result |-> Retrieve(index, rag_top_n, probe.request)]
    /\ UNCHANGED <<files, boot, venues, current_requests, index, rag_top_n, calls>>

NextRetrieve == RetrieveProbe

SpecRetrieve == InitRetrieve /\ [][NextRetrieve]_vars

-----------------------------------------------------------------------------
(* properties *)

Done(c) == calls[c].pc = "done"
Succeeded(c) == Done(c) /\ calls[c].response.status = 200

\* the retrieved candidates of a call whose venue is in the venue set
Resolvable(item) == \E i \in DOMAIN venues : venues[i]["venue_id"] = Get(item.historical_event, "venue_id", Null)
ResolvedOf(c) == SelectSeq(calls[c].similar, Resolvable)

\* C1: recommend never returns a successful response whose recommendations
\* list is empty, whatever the event_id and the integer top_n.
C1_NeverEmptySuccess ==
    \A c \in DOMAIN calls : Succeeded(c) => calls[c].response.recommendations # <<>>

\* C2: a successful response is sorted in non-increasing order of
\* ranking_score and holds exactly min(top_n, available) recommendations,
\* available being the number of retrieved candidates whose venue resolved.
C2_SortedAndMinLength ==
    \A c \in DOMAIN calls : Succeeded(c) =>
        LET recs == calls[c].response.recommendations
        IN  /\ \A i, j \in DOMAIN recs : i < j => recs[i].ranking_score >= recs[j].ranking_score
            /\ Len(recs) = Min(TopN(calls[c].payload), Len(ResolvedOf(c)))

\* C3: every recommendation's venue_id is in the venue set and is the
\* venue_id of the historical event it carries; a candidate whose venue is
\* absent yields no recommendation and no error: the recommendations built
\* are those of the candidates seen so far whose venue resolved, in retrieval
\* order, and a call that retrieved candidates ends in an error only when
\* none of them resolved (404) or when scoring a resolved one raised (500);
\* otherwise it returns recommendations among those built.
C3_UnresolvedVenueDropped ==
    \A c \in DOMAIN calls :
        LET recs == calls[c].recommendations
            seen == SelectSeq(SubSeq(calls[c].similar, 1, calls[c].i - 1), Resolvable)
            response == calls[c].response
        IN  /\ \A i \in DOMAIN recs :
                /\ \E k \in DOMAIN venues : venues[k]["venue_id"] = recs[i].venue_id
                /\ recs[i].venue_id = Get(recs[i].analysis.historical_event, "venue_id", Null)
            /\ Len(recs) = Len(seen)
            /\ \A i \in DOMAIN recs :
                /\ recs[i].analysis.historical_event = seen[i].historical_event
                /\ recs[i].analysis.rag_similarity_score = seen[i].similarity_score
            /\ Done(c) /\ calls[c].similar # <<>> =>
                CASE response.status = 200 ->
                        /\ seen = ResolvedOf(c)
                        /\ \A i \in DOMAIN response.recommendations :
                            \E k \in DOMAIN recs : response.recommendations[i] = recs[k]
                  [] response.status = 404 ->
                        /\ response.detail = "No suitable venues found"
                        /\ ResolvedOf(c) = <<>>
                  [] OTHER ->
                        /\ response = InternalServerError
                        /\ Resolvable(calls[c].similar[calls[c].i])
                        /\ SummaryRaises(<<calls[c].similar[calls[c].i]>>)

\* a call succeeded although one of its retrieved candidates had no venue
C3_Witness ==
    \E c \in DOMAIN calls :
        /\ Succeeded(c)
        /\ calls[c].response.recommendations # <<>>
        /\ \E i \in DOMAIN calls[c].similar : ~Resolvable(calls[c].similar[i])

\* the outcome-adjusted score of a candidate, raw similarity x (1.0 if
\* would_rebook else 0.5) x (overall_satisfaction / 5), times 1000
AdjustedScore(item) ==
    item.similarity_score
    * (IF Get(item.historical_event, "would_rebook", TRUE) THEN 2 ELSE 1)
    * Get(item.historical_event, "overall_satisfaction", 30)

\* C4: the candidates RAG.retrieve returns are in descending order of
\* adjusted_score, each carrying its raw, un-penalised similarity.
C4_OrderedByAdjustedScore ==
    probe.kind = "retrieve" /\ probe.done =>
        LET result == probe.result
        IN  /\ \A i, j \in DOMAIN result :
                i < j => AdjustedScore(result[i]) >= AdjustedScore(result[j])
            /\ \A i \in DOMAIN result :
                result[i].similarity_score =
                    SimilarityOf(Distance(QueryDoc(probe.request),
                                          JsonDumps(result[i].historical_event)))

\* a response without the collaborator's texts: status, venues, order and scores
Scores(a) == [score |-> a.score, reason |-> a.reason]
RankingOfRec(rec) ==
    [venue_id |-> rec.venue_id, venue_name |-> rec.venue_name,
     ranking_score |-> rec.ranking_score,
     capacity |-> Scores(rec.analysis.capacity_agent),
     amenity |-> Scores(rec.analysis.amenity_agent),
     location |-> Scores(rec.analysis.location_agent),
     cost |-> Scores(rec.analysis.cost_agent),
     special |-> Scores(rec.analysis.special_requirement_agent),
     feedback_adjustment |-> rec.analysis.feedback_adjustment,
     rag_similarity_score |-> rec.analysis.rag_similarity_score,
     historical_event |-> rec.analysis.historical_event]
RankingOf(response) ==
    IF response.status = 200
    THEN [status |-> 200,
          ranking |-> [i \in DOMAIN response.recommendations |->
                          RankingOfRec(response.recommendations[i])]]
    ELSE response

ExplanationOf(rec, k) ==
    CASE k = "capacity" -> rec.analysis.capacity_agent.llm_explanation
      [] k = "amenity" -> rec.analysis.amenity_agent.llm_explanation
      [] k = "location" -> rec.analysis.location_agent.llm_explanation
      [] k = "cost" -> rec.analysis.cost_agent.llm_explanation
      [] k = "special" -> rec.analysis.special_requirement_agent.llm_explanation
      [] k = "summary" -> rec.analysis.rag_summary

Placeholders == {"[Local LLM error]", "[LLM Error]"}

\* C5: whatever the explanation collaborator returns, and on whichever calls
\* it raises, a recommend call ends as the same call would with a collaborator
\* that never fails: same status, same venues in the same order, same agent
\* scores, feedback adjustment, similarity and ranking_score; a failed call
\* shows only as a placeholder string in its own explanation field.
C5_ExplanationNeverAffectsRanking ==
    \A c \in DOMAIN calls :
        /\ Done(c) =>
            RankingOf(calls[c].response) =
                RankingOf(RecommendAlone(current_requests, venues, index, rag_top_n,
                                         calls[c].payload,
                                         [i \in DOMAIN calls[c].similar |-> LlmAllText]))
        /\ \A i \in DOMAIN calls[c].recommendations : \A k \in LlmCalls :
             (ExplanationOf(calls[c].recommendations[i], k) \in Placeholders)
                <=> (calls[c].llm[i][k] = "error")

\* a call succeeded although the collaborator raised while a candidate was scored
C5_Witness ==
    \E c \in DOMAIN calls :
        /\ Succeeded(c)
        /\ calls[c].response.recommendations # <<>>
        /\ \E i \in DOMAIN calls[c].llm : \E k \in LlmCalls : calls[c].llm[i][k] = "error"
        /\ \E i \in DOMAIN calls[c].llm : \E k \in LlmCalls : calls[c].llm[i][k] = "text"

\* C6: a missing or malformed corpus file, or a failed index build, aborts
\* startup: the service accepts requests only with the three files loaded
\* and the index built from the event history.
C6_StartupFailureIsFatal ==
    boot = "serving" =>
        /\ files.venues.status = "ok"
        /\ files.requests.status = "ok"
        /\ files.history.status = "ok"
        /\ index = IndexedDocs(<<>>, files.history.content)

\* C7: no recommend call changes the venue set, the request set or the
\* index, the index is written by build_index at startup only, and each of
\* the concurrent calls returns what it returns when run alone.
C7_ConcurrentCallsIndependent ==
    /\ [][boot = "serving" => UNCHANGED <<venues, current_requests, index, rag_top_n>>]_vars
    /\ [][index' # index => boot = "build_index" /\ boot' = "serving"]_vars
    /\ [](\A c \in DOMAIN calls :
            Done(c) => calls[c].response =
                RecommendAlone(current_requests, venues, index, rag_top_n,
                               calls[c].payload, calls[c].llm))

\* one call has returned recommendations while another is in the middle of its loop
C7_Witness ==
    \E c, d \in DOMAIN calls :
        /\ c # d
        /\ Succeeded(c)
        /\ Len(calls[c].response.recommendations) = 2
        /\ calls[d].pc = "score"
        /\ calls[d].i = 2
        /\ calls[d].payload.event_id # calls[c].payload.event_id

\* C8: each criterion agent's score is an integer in [0, 100] on well-formed
\* input; the cost score is 0 when the budget is 0.
C8_AgentScoreInRange ==
    probe.kind = "agent" /\ probe.done =>
        /\ probe.result.score \in 0..100
        /\ probe.agent = "cost" /\ Get(probe.event, "budget", 0) = 0 => probe.result.score = 0

\* the capacity agent on more attendees than the venue holds
C8_Witness ==
    /\ probe.kind = "agent" /\ probe.done
    /\ probe.agent = "capacity"
    /\ Get(probe.venue, "max_capacity", 0) > 0
    /\ Get(probe.event, "attendee_count", 0) > Get(probe.venue, "max_capacity", 0)
    /\ probe.result.score = 0

\* C9: a retriever built with top_n = K returns exactly min(K, corpus size)
\* candidates, each with a similarity_score in [0, 100].
C9_AtMostKCandidates ==
    probe.kind = "retrieve" /\ probe.done =>
        /\ Len(probe.result) = Min(rag_top_n, Len(index))
        /\ \A i \in DOMAIN probe.result : probe.result[i].similarity_score \in 0..1000

\* C10: the location agent returns 100 exactly when region and
\* location_preference are both present and equal, and 50 otherwise, also
\* when both are absent.
C10_LocationNullNeverMatches ==
    probe.kind = "agent" /\ probe.done /\ probe.agent = "location" =>
        LET pref == Get(probe.event, "location_preference", Null)
            actual == Get(probe.venue, "region", Null)
        IN  probe.result.score =
                IF pref # Null /\ actual # Null /\ pref = actual THEN 100 ELSE 50

\* C11: for attendee_count >= 0 and max_capacity > 0 the capacity score is
\* max(0, 100 - round(100 x attendee_count / max_capacity)), rounding to the
\* nearest integer, and it is 0 when max_capacity = 0.
C11_CapacityRoundsToNearest ==
    probe.kind = "agent" /\ probe.done /\ probe.agent = "capacity" =>
        LET max_cap == Get(probe.venue, "max_capacity", 0)
            attendees == Get(probe.event, "attendee_count", 0)
        IN  probe.result.score =
                IF max_cap = 0 THEN 0
                ELSE Max(0, 100 - RoundHalfEven(100 * attendees, max_cap))

\* C12: for every surviving candidate, ranking_score is
\* 0.45 x agent_score + 0.45 x similarity_score + 0.10 x feedback_adjustment
\* rounded to one decimal place, with agent_score = 0.25 capacity + 0.20
\* amenity + 0.15 location + 0.25 cost + 0.15 special (weights summing to
\* 1.0), similarity_score the value the retriever surfaced, and
\* feedback_adjustment the feedback total clamped to [-20, 20], 0 without
\* feedback.
C12_RankingScoreFormula ==
    /\ AGENT_WEIGHTS.capacity + AGENT_WEIGHTS.amenity + AGENT_WEIGHTS.location
       + AGENT_WEIGHTS.cost + AGENT_WEIGHTS.special = 100
    /\ \A c \in DOMAIN calls :
        LET recs == calls[c].recommendations
            seen == SelectSeq(SubSeq(calls[c].similar, 1, calls[c].i - 1), Resolvable)
        IN  \A i \in DOMAIN recs :
                LET an == recs[i].analysis
                    hist == seen[i].historical_event
                    total == 5 * SeqSum(Get(hist, "positive_feedback", <<>>))
                             + 5 * SeqSum(Get(hist, "negative_feedback", <<>>))
                    agent_score == 25 * an.capacity_agent.score
                                   + 20 * an.amenity_agent.score
                                   + 15 * an.location_agent.score
                                   + 25 * an.cost_agent.score
                                   + 15 * an.special_requirement_agent.score
                IN  /\ an.rag_similarity_score = seen[i].similarity_score
                    /\ an.feedback_adjustment =
                          IF total > 2000 THEN 2000 ELSE IF total < -2000 THEN -2000 ELSE total
                    /\ Get(hist, "positive_feedback", <<>>) = <<>>
                       /\ Get(hist, "negative_feedback", <<>>) = <<>>
                          => an.feedback_adjustment = 0
                    /\ recs[i].ranking_score =
                          RoundHalfEven(45 * agent_score + 450 * an.rag_similarity_score
                                        + 10 * an.feedback_adjustment, 1000)

\* a call returned one candidate whose feedback total was clamped and one without feedback
C12_Witness ==
    \E c \in DOMAIN calls :
        /\ Succeeded(c)
        /\ \E i, j \in DOMAIN calls[c].response.recommendations :
            LET a == calls[c].response.recommendations[i].analysis
                b == calls[c].response.recommendations[j].analysis
            IN  /\ FeedbackRaw(a.historical_event) > 2000
                /\ a.feedback_adjustment = 2000
                /\ "positive_feedback" \notin DOMAIN b.historical_event
                /\ b.feedback_adjustment = 0
                /\ b.rag_similarity_score > 0

\* the place of a recommendation's historical event among the retrieved candidates
RetrievalPosition(c, rec) ==
    CHOOSE k \in DOMAIN calls[c].similar :
        calls[c].similar[k].historical_event = rec.analysis.historical_event

\* C13: two surviving candidates with the same ranking_score appear in the
\* output in the order in which the retriever returned them, and when
\* truncation to top-N keeps only one of them it keeps the earlier-retrieved.
C13_TiesKeepRetrievalOrder ==
    \A c \in DOMAIN calls : Succeeded(c) =>
        LET out == calls[c].response.recommendations
            all == calls[c].recommendations
        IN  /\ \A i, j \in DOMAIN out :
                i < j /\ out[i].ranking_score = out[j].ranking_score
                    => RetrievalPosition(c, out[i]) < RetrievalPosition(c, out[j])
            /\ \A i \in DOMAIN out, k \in DOMAIN all :
                /\ all[k].ranking_score = out[i].ranking_score
                /\ \A j \in DOMAIN out : out[j] # all[k]
                => RetrievalPosition(c, out[i]) < RetrievalPosition(c, all[k])

\* a call returned two candidates with the same ranking_score, which differ
\* in similarity and in feedback
C13_Witness ==
    \E c \in DOMAIN calls :
        /\ Succeeded(c)
        /\ \E i, j \in DOMAIN calls[c].response.recommendations :
            LET a == calls[c].response.recommendations[i]
                b == calls[c].response.recommendations[j]
            IN  /\ i < j
                /\ a.ranking_score = b.ranking_score
                /\ a.analysis.rag_similarity_score # b.analysis.rag_similarity_score
                /\ a.analysis.historical_event # b.analysis.historical_event

=============================================================================
